---- MODULE Spec2Model ----
(***************************************************************************)
(* Model of the request router: route registration (static table and      *)
(* trie), route resolution with its bounded resolution cache, middleware  *)
(* chain execution and HTTP / WebSocket dispatch.                          *)
(*                                                                         *)
(* Strings of the program are modelled by what the program does to them:  *)
(* a path is the sequence of the pieces `path.split("/")` yields after    *)
(* the leading slash (so "/a/" is <<a, empty>> and "/" is <<empty>>), and *)
(* a piece is a sequence of tokens, where ":" and "*" are tokens of their *)
(* own and every other token is a run of characters holding neither.      *)
(* startsWith(":"), includes(":"), slice(1) and === "*" are computed on   *)
(* the tokens.                                                             *)
(***************************************************************************)
EXTENDS Integers, Sequences, FiniteSets, TLC

\* ------------------------------------------------------------------ bounds

\* Registrations the setup phase makes (register calls, failed ones included).
MaxRoutes == 3

\* Capacity of the resolution cache. The program's value is 100; the model
\* scales it down so that eviction happens within the bounds.
MAX_CACHE_SIZE == 2

\* Calls of use() during setup.
MaxUse == 1

\* Requests the transport delivers after listen().
MaxRequests == 2

\* ------------------------------------------------------------- path pieces

Colon == ":"
Star == "*"

Lit(s) == <<s>>
Prm(s) == <<Colon, s>>

SegStar == <<Star>>
SegEmpty == <<>>

\* The key under which register and find store and look up the parameter child.
PARAM_KEY == Prm("param")

\* Property names every plain object inherits from Object.prototype: a lookup
\* children[k] of such a name on a Record created as {} yields the inherited
\* value, not undefined. One representative ("constructor", the function
\* Object) stands for the function-valued ones (toString, valueOf, ...).
ObjectPrototypeKeys == {Lit("constructor")}

\* part.startsWith(":")
StartsWithColon(part) == Len(part) > 0 /\ part[1] = Colon

\* part === "*"
IsStar(part) == part = SegStar

\* part.slice(1)
Slice1(part) == IF Len(part) = 0 THEN <<>> ELSE Tail(part)

\* path.includes(ch), on the whole path string ("/" is neither ":" nor "*")
Includes(path, ch) == \E i \in DOMAIN path : \E j \in DOMAIN path[i] : path[i][j] = ch

\* path.split("/").filter(Boolean): the empty pieces are dropped
Parts(path) == SelectSeq(path, LAMBDA s : s # SegEmpty)

\* `${method} ${path}`: the key of the static table and of the cache
CacheKey(method, path) == <<method, path>>

\* ------------------------------------------------------------------ inputs

Methods == {"GET", "POST"}

\* The paths the setup phase registers.
RoutePaths ==
  { <<Lit("route"), Prm("id")>>,
    <<Lit("route"), Prm("name")>>,
    <<Lit("route"), Prm("id"), Lit("test"), Prm("name")>>,
    <<Lit("files"), SegStar>>,
    <<Lit("files"), Lit("a")>>,
    <<Lit("files"), Lit("a"), SegEmpty>>,
    <<Lit("constructor"), Prm("id")>> }

\* The register calls of the setup phase: every path with GET, one with POST.
Registrations ==
  { <<"GET", p>> : p \in RoutePaths } \cup { <<"POST", <<Lit("route"), Prm("id")>> >> }

\* The values a request path has at a parameter position: two plain ones, the
\* text ":param", and a property name inherited from Object.prototype.
SegValues == {Lit("12398"), PARAM_KEY, Lit("constructor")}

\* The request paths find is called with.
ReqPaths ==
  { <<Lit("route")>>,
    <<Lit("files"), Lit("a")>>, <<Lit("files"), Lit("a"), SegEmpty>>,
    <<Lit("files"), Lit("a"), Lit("b")>>,
    <<Lit("files"), Lit("a"), Lit("b"), Lit("c")>>,
    <<Lit("files"), Lit("constructor")>>,
    <<Lit("route"), Lit("12398"), Lit("extra")>> }
  \cup { <<Lit("route"), x>> : x \in SegValues }
  \cup { <<Lit("route"), x, Lit("test"), Lit("asdf")>> : x \in {Lit("12398"), PARAM_KEY} }

\* The find calls: every request path with GET, two with POST.
Requests ==
  { <<"GET", p>> : p \in ReqPaths }
  \cup { <<"POST", <<Lit("route"), Lit("12398")>> >>,
         <<"POST", <<Lit("files"), Lit("a"), Lit("b")>> >> }

\* ------------------------------------------------------------------- state

VARIABLES
  nodes,              \* the trie: node id -> TrieNode (root is <<>>)
  routes,             \* static table: cache key -> Handler
  resolvedRoutes,     \* resolution cache: entries in insertion order
  globalMiddlewares,  \* middlewares added by use()
  nUse,               \* use() calls made so far
  registered,         \* the (method, path) pairs whose register call returned
  lastReg,            \* the latest register call and the error it threw
  nRegistered,        \* register calls made so far
  stale,              \* a register call was made while the cache held entries
  fifo,               \* keys of the cache in the order they were inserted
  evicted,            \* some find has removed an entry from the cache
  notFoundHandler,    \* <<>> or <<Handler>>
  errHandler,         \* <<>> or <<Handler>>
  wsTables,           \* wsOpenRoutes, ..., wsOnConnects: callback name -> paths set
  wsRoutes,           \* the paths flagged as WebSocket routes
  listening,          \* listen() was called: requests arrive
  nRequests,          \* handleHTTP calls made so far
  reqs                \* request slot -> the state of its handleHTTP call

routerVars == <<nodes, routes, resolvedRoutes, globalMiddlewares, nUse, registered,
                lastReg, nRegistered, stale, fifo, evicted>>

dispatchVars == <<notFoundHandler, errHandler, wsTables, wsRoutes, listening, nRequests, reqs>>

vars == <<routerVars, dispatchVars>>

\* ------------------------------------------------------------------- trie

Root == <<>>

\* The id of the value `children["constructor"]` inherits: the function
\* Object, which has no `children` and no `handlers` of its own.
InheritedId(key) == <<Lit("Object.prototype"), key>>

\* new TrieNode()
NewTrieNode ==
  [isTrieNode |-> TRUE, handlers |-> <<>>, children |-> <<>>,
   paramKey |-> <<>>, wildcard |-> <<>>]

\* An inherited object reached through the prototype chain: no handlers, no
\* children, no paramKey; properties can be put on it.
InheritedObject ==
  [isTrieNode |-> FALSE, handlers |-> <<>>, children |-> <<>>,
   paramKey |-> <<>>, wildcard |-> <<>>]

\* node.children[key]: <<id>> when defined (own or inherited), <<>> when undefined
ChildrenGet(trie, node, key) ==
  IF key \in DOMAIN trie[node].children THEN <<trie[node].children[key]>>
  ELSE IF key \in ObjectPrototypeKeys THEN <<InheritedId(key)>>
  ELSE <<>>

\* A paramKey that is undefined or the empty string is falsy.
Truthy(paramKey) == paramKey # <<>> /\ paramKey[1] # <<>>


\* ------------------------------------------------------- Router.register

\* A parameter key that every registration through the position overwrites.
SetParamKeyAlways(paramKey, part) == <<Slice1(part)>>

\* node.paramKey ||= part.slice(1): a key that is set (and not "") stays.
SetParamKey(paramKey, part) == IF Truthy(paramKey) THEN paramKey ELSE <<Slice1(part)>>

RECURSIVE InsertWalk(_, _, _)
\* The loop of register over the parts of a dynamic path. Yields the trie as
\* the loop left it, the node it ended on, and whether it threw a TypeError
\* (a property read on undefined); nodes created before a throw stay.
InsertWalk(trie, node, parts) ==
  IF parts = <<>> THEN [trie |-> trie, node |-> node, threw |-> FALSE]
  ELSE
    LET part == Head(parts)
        isParam == StartsWithColon(part)
        isWildcard == IsStar(part)
    IN
    IF isParam THEN
      \* node = node.children[":param"] ?? (node.children[":param"] = new TrieNode());
      \* node.paramKey ||= part.slice(1);
      IF ~trie[node].isTrieNode THEN [trie |-> trie, node |-> node, threw |-> TRUE]
      ELSE
        LET found == ChildrenGet(trie, node, PARAM_KEY)
            child == IF found # <<>> THEN found[1] ELSE Append(node, PARAM_KEY)
            t2 == IF found # <<>> THEN trie
                  ELSE [trie EXCEPT ![node].children = @ @@ (PARAM_KEY :> child)]
                         @@ (child :> NewTrieNode)
            t3 == [t2 EXCEPT ![child].paramKey = SetParamKey(@, part)]
        IN InsertWalk(t3, child, Tail(parts))
    ELSE IF isWildcard THEN
      \* node.wildcard = node.wildcard ?? new TrieNode(); node = node.wildcard;
      IF trie[node].wildcard # <<>>
      THEN InsertWalk(trie, trie[node].wildcard[1], Tail(parts))
      ELSE
        LET child == Append(node, SegStar)
            t2 == [trie EXCEPT ![node].wildcard = <<child>>] @@ (child :> NewTrieNode)
        IN InsertWalk(t2, child, Tail(parts))
    ELSE
      \* node = node.children[part] ?? (node.children[part] = new TrieNode());
      IF ~trie[node].isTrieNode THEN [trie |-> trie, node |-> node, threw |-> TRUE]
      ELSE
        LET found == ChildrenGet(trie, node, part)
            child == IF found # <<>> THEN found[1] ELSE Append(node, part)
            t2 == IF found # <<>> THEN trie
                  ELSE [trie EXCEPT ![node].children = @ @@ (part :> child)]
                         @@ (child :> NewTrieNode)
        IN InsertWalk(t2, child, Tail(parts))

\* new Handler(handlerFunc) with setMiddlewares(globalMiddlewares.concat(middlewares))
NewHandler(handlerFunc, middlewares) ==
  [mainHandler |-> handlerFunc, middlewares |-> globalMiddlewares \o middlewares]

\* !path.includes(":") && !path.includes("*")
IsStaticPath(path) == ~Includes(path, Colon) /\ ~Includes(path, Star)

\* What a call yields: the handler (<<>> when undefined), the params, and the
\* error thrown ("none" when the call returned).
Outcome(handler, params, threw) ==
  [handler |-> handler, params |-> params, threw |-> threw]

NoHandler == Outcome(<<>>, <<>>, "none")

\* The effect of register(method, path, handlerFunc, middlewares) on the
\* static table and the trie, and the error it throws.
RegisterEffect(method, path, handlerFunc, middlewares) ==
  LET handler == NewHandler(handlerFunc, middlewares)
      key == CacheKey(method, path)
  IN
  IF IsStaticPath(path) THEN
    IF key \in DOMAIN routes
    THEN [routes |-> routes, nodes |-> nodes, threw |-> "ROUTE_ALREADY_REGISTERED"]
    ELSE [routes |-> routes @@ (key :> handler), nodes |-> nodes, threw |-> "none"]
  ELSE
    LET w == InsertWalk(nodes, Root, Parts(path)) IN
    IF w.threw \/ ~w.trie[w.node].isTrieNode
    THEN [routes |-> routes, nodes |-> w.trie, threw |-> "TypeError"]
    ELSE IF method \in DOMAIN w.trie[w.node].handlers
    THEN [routes |-> routes, nodes |-> w.trie, threw |-> "ROUTE_ALREADY_REGISTERED"]
    ELSE [routes |-> routes,
          nodes |-> [w.trie EXCEPT ![w.node].handlers = @ @@ (method :> handler)],
          threw |-> "none"]

\* The function a caller passes for a route: one per registered route.
HandlerFuncOf(method, path) == <<method, path>>

Register(method, path, handlerFunc, middlewares) ==
  /\ nRegistered < MaxRoutes
  /\ LET e == RegisterEffect(method, path, handlerFunc, middlewares) IN
       /\ routes' = e.routes
       /\ nodes' = e.nodes
       /\ lastReg' = [method |-> method, path |-> path, threw |-> e.threw,
                      again |-> <<method, path>> \in registered]
       /\ registered' = IF e.threw = "none" THEN registered \cup {<<method, path>>}
                        ELSE registered
  /\ nRegistered' = nRegistered + 1
  /\ stale' = (stale \/ resolvedRoutes # <<>>)
  /\ UNCHANGED <<resolvedRoutes, globalMiddlewares, nUse, fifo, evicted, dispatchVars>>

\* ------------------------------------------------------------- RouteGroup

\* router.group(prefixPath, ...middlewares): new RouteGroup(this, prefixPath, ...middlewares)
RouterGroup(prefixPath, middlewares) ==
  [prefixPath |-> prefixPath, middlewares |-> middlewares]

\* this.prefixPath + path: both begin with a slash, so the pieces follow each other
PrefixedPath(group, path) == group.prefixPath \o path

\* group.get(path, handler, ...middlewares):
\* this.app.get(this.prefixPath + path, handler, ...this.middlewares.concat(middlewares))
GroupGet(group, path, handlerFunc, middlewares) ==
  Register("GET", PrefixedPath(group, path), handlerFunc, group.middlewares \o middlewares)

\* group.group(prefixPath, ...middlewares):
\* new RouteGroup(this.app, this.prefixPath + prefixPath, ...middlewares)
GroupGroup(group, prefixPath, middlewares) ==
  RouterGroup(group.prefixPath \o prefixPath, middlewares)

\* ----------------------------------------------------------- Router.find

RECURSIVE MatchWalk(_, _, _, _)
\* The loop of find over the parts of the request path: the node it ends on,
\* the params captured, and how it ended: "end" (parts exhausted, or the
\* wildcard's break), "fail" (no child matched) or "TypeError".
MatchWalk(trie, node, parts, params) ==
  IF parts = <<>> THEN [node |-> node, params |-> params, how |-> "end"]
  ELSE IF ~trie[node].isTrieNode
  THEN [node |-> node, params |-> params, how |-> "TypeError"]
  ELSE
    LET part == Head(parts)
        exactMatch == ChildrenGet(trie, node, part)
        paramMatch == ChildrenGet(trie, node, PARAM_KEY)
        wildcardMatch == trie[node].wildcard
    IN
    IF exactMatch # <<>> THEN MatchWalk(trie, exactMatch[1], Tail(parts), params)
    ELSE IF paramMatch # <<>> THEN
      LET n == paramMatch[1]
          p2 == IF Truthy(trie[n].paramKey)
                THEN [k \in DOMAIN params \cup {trie[n].paramKey[1]} |->
                        IF k = trie[n].paramKey[1] THEN part ELSE params[k]]
                ELSE params
      IN MatchWalk(trie, n, Tail(parts), p2)
    ELSE IF wildcardMatch # <<>>
    THEN [node |-> wildcardMatch[1], params |-> params, how |-> "end"]
    ELSE [node |-> node, params |-> params, how |-> "fail"]

\* The trie walk of find and the lookup of the method at the node it ends on.
TrieResolve(trie, method, path) ==
  LET w == MatchWalk(trie, Root, Parts(path), <<>>) IN
  IF w.how = "TypeError" THEN Outcome(<<>>, <<>>, "TypeError")
  ELSE IF w.how = "fail" THEN NoHandler
  ELSE IF ~trie[w.node].isTrieNode THEN Outcome(<<>>, <<>>, "TypeError")
  ELSE IF method \notin DOMAIN trie[w.node].handlers THEN NoHandler
  ELSE Outcome(<<trie[w.node].handlers[method]>>, w.params, "none")

\* A cache probed by the path alone, the method left out of the key.
CacheGetByPath(cache, key) ==
  LET hits == SelectSeq(cache, LAMBDA e : e.key[2] = key[2]) IN
  IF hits = <<>> THEN <<>> ELSE <<hits[1].value>>

\* this.resolvedRoutes.get(cacheKey): <<value>> or <<>>
CacheGet(cache, key) ==
  LET hits == SelectSeq(cache, LAMBDA e : e.key = key) IN
  IF hits = <<>> THEN <<>> ELSE <<hits[1].value>>

\* An eviction that removes the entry inserted last.
DeleteNewest(cache) == IF cache = <<>> THEN cache ELSE SubSeq(cache, 1, Len(cache) - 1)

\* this.resolvedRoutes.delete(this.resolvedRoutes.keys().next().value)
DeleteOldest(cache) == IF cache = <<>> THEN cache ELSE Tail(cache)

\* An insertion that never evicts.
CacheInsertNoEvict(cache, key, result) ==
  IF \E i \in DOMAIN cache : cache[i].key = key
  THEN [i \in DOMAIN cache |-> IF cache[i].key = key THEN [key |-> key, value |-> result]
                                ELSE cache[i]]
  ELSE Append(cache, [key |-> key, value |-> result])

\* The size check, the eviction and this.resolvedRoutes.set(cacheKey, result):
\* set on a key already present replaces the value in place.
CacheInsert(cache, key, result) ==
  LET c2 == IF Len(cache) >= MAX_CACHE_SIZE THEN DeleteOldest(cache) ELSE cache IN
  IF \E i \in DOMAIN c2 : c2[i].key = key
  THEN [i \in DOMAIN c2 |-> IF c2[i].key = key THEN [key |-> key, value |-> result] ELSE c2[i]]
  ELSE Append(c2, [key |-> key, value |-> result])

\* A find that stores the negative result of a failed walk in the cache too.
FindEffectCachingMisses(rts, trie, cache, method, path) ==
  LET cacheKey == CacheKey(method, path)
      cached == CacheGet(cache, cacheKey)
      walked == TrieResolve(trie, method, path)
  IN
  IF cacheKey \in DOMAIN rts
  THEN [result |-> Outcome(<<rts[cacheKey]>>, <<>>, "none"), cache |-> cache]
  ELSE IF cached # <<>> THEN [result |-> cached[1], cache |-> cache]
  ELSE IF walked.threw # "none" THEN [result |-> walked, cache |-> cache]
  ELSE [result |-> walked, cache |-> CacheInsert(cache, cacheKey, walked)]

\* A find that probes the cache before the static table.
FindEffectCacheFirst(rts, trie, cache, method, path) ==
  LET cacheKey == CacheKey(method, path)
      cached == CacheGet(cache, cacheKey)
      walked == TrieResolve(trie, method, path)
  IN
  IF cached # <<>> THEN [result |-> cached[1], cache |-> cache]
  ELSE IF cacheKey \in DOMAIN rts
  THEN [result |-> Outcome(<<rts[cacheKey]>>, <<>>, "none"), cache |-> cache]
  ELSE IF walked.handler = <<>> THEN [result |-> walked, cache |-> cache]
  ELSE [result |-> walked, cache |-> CacheInsert(cache, cacheKey, walked)]

\* find(method, path) on a router with static table rts, trie and cache: what
\* it returns (or throws) and the cache it leaves.
FindEffect(rts, trie, cache, method, path) ==
  LET cacheKey == CacheKey(method, path)
      cached == CacheGet(cache, cacheKey)
      walked == TrieResolve(trie, method, path)
  IN
  IF cacheKey \in DOMAIN rts
  THEN [result |-> Outcome(<<rts[cacheKey]>>, <<>>, "none"), cache |-> cache]
  ELSE IF cached # <<>> THEN [result |-> cached[1], cache |-> cache]
  ELSE IF walked.handler = <<>> THEN [result |-> walked, cache |-> cache]
  ELSE [result |-> walked, cache |-> CacheInsert(cache, cacheKey, walked)]

\* The keys of a cache, in its order.
KeysOf(cache) == [i \in DOMAIN cache |-> cache[i].key]

\* The insertion history after a call that took the cache from c to c2: keys
\* no longer present are struck, keys newly present are added at the end.
FifoAfter(order, c, c2) ==
  LET present == {c2[i].key : i \in DOMAIN c2}
      before == {c[i].key : i \in DOMAIN c}
      kept == SelectSeq(order, LAMBDA k : k \in present)
      added == SelectSeq(KeysOf(c2), LAMBDA k : k \notin before)
  IN kept \o added

\* Which params object a request's context holds (new Context(req, params)
\* keeps the object find returned): one of its own (the {} of a static hit or
\* of a context built without params), the object of the cache entry of its
\* key, or an object that was in the cache and has been evicted since.
OwnObject == [kind |-> "own", id |-> 0]
CacheObject == [kind |-> "cache", id |-> 0]
EvictedObject(n) == [kind |-> "evicted", id |-> n]

\* The requests after a call that took the cache from c to c2: a context that
\* holds the object of an entry no longer present goes on holding it.
Orphaned(rs, c2, n) ==
  [r \in DOMAIN rs |->
     IF /\ rs[r].obj = CacheObject
        /\ \A j \in DOMAIN c2 : c2[j].key # CacheKey(rs[r].method, rs[r].path)
     THEN [rs[r] EXCEPT !.obj = EvictedObject(n)]
     ELSE rs[r]]

Find(method, path) ==
  /\ LET e == FindEffect(routes, nodes, resolvedRoutes, method, path) IN
       /\ resolvedRoutes' = e.cache
       /\ fifo' = FifoAfter(fifo, resolvedRoutes, e.cache)
       /\ evicted' = (evicted \/ \E i \in DOMAIN resolvedRoutes :
                                   \A j \in DOMAIN e.cache : e.cache[j].key # resolvedRoutes[i].key)
       /\ reqs' = Orphaned(reqs, e.cache, nRequests)
  /\ UNCHANGED <<nodes, routes, globalMiddlewares, nUse, registered, lastReg, nRegistered,
                 stale, notFoundHandler, errHandler, wsTables, wsRoutes, listening, nRequests>>

\* ------------------------------------------------- values and middlewares

\* Values a handler or a middleware returns, and errors thrown.
Str(t) == [kind |-> "string", text |-> t]
Undef == [kind |-> "undefined", text |-> ""]
Err(t) == [kind |-> "error", text |-> t]

\* !result is false
JsTruthy(v) ==
  ~(v.kind = "undefined" \/ (v.kind = "string" /\ v.text = "")
      \/ (v.kind = "number" /\ v.text = "0"))

\* The middlewares of the setup: A and B are added with one use(A, B), C is
\* given to a route. Each runs its first part, awaits next(), runs its second
\* part and returns what next() returned.
GlobalMws == <<"A", "B">>
RouteMws == <<"C">>

\* What the terminal handler functions do: return the empty string (as the
\* handler of the tests does), return a non-empty string, or throw.
HandlerReturns == {Str(""), Str("ok"), Err("handler")}

Event(ev, who) == [ev |-> ev, who |-> who]

\* The handleHTTP calls that can be in flight at a time: a slot is taken by the
\* next request when its call has settled.
ReqIds == {"r1", "r2"}

\* The middlewares that return a value without calling next().
ShortCircuits == {"S"}

IdleReq ==
  [pc |-> "idle", method |-> "", path |-> <<>>, which |-> "", handler |-> <<>>,
   depth |-> 0, dir |-> "", val |-> Undef, ret |-> Undef, cut |-> Undef, params |-> <<>>,
   obj |-> OwnObject, wrote |-> FALSE,
   ctxErr |-> Undef, trace |-> <<>>, outcome |-> ""]

\* ------------------------------------------------------------ setup calls

\* The handler with the given middlewares put in front of its chain.
Recompiled(handler, middlewares) ==
  [handler EXCEPT !.middlewares = middlewares \o @]

\* A use() after which the handlers registered before run the new global
\* middlewares too, as if their chains were composed again.
UseRecompile(middlewares) ==
  /\ ~listening
  /\ nUse < MaxUse
  /\ globalMiddlewares' = globalMiddlewares \o middlewares
  /\ nUse' = nUse + 1
  /\ routes' = [k \in DOMAIN routes |-> Recompiled(routes[k], middlewares)]
  /\ nodes' = [n \in DOMAIN nodes |->
                 [nodes[n] EXCEPT !.handlers =
                    [m \in DOMAIN nodes[n].handlers |->
                       Recompiled(nodes[n].handlers[m], middlewares)]]]
  /\ UNCHANGED <<resolvedRoutes, registered, lastReg, nRegistered, stale,
                 fifo, evicted, dispatchVars>>

\* use(...middlewares)
Use(middlewares) ==
  /\ ~listening
  /\ nUse < MaxUse
  /\ globalMiddlewares' = globalMiddlewares \o middlewares
  /\ nUse' = nUse + 1
  /\ UNCHANGED <<nodes, routes, resolvedRoutes, registered, lastReg, nRegistered, stale,
                 fifo, evicted, dispatchVars>>

\* onErr(handlerFunc, ...middlewares)
OnErr ==
  /\ ~listening
  /\ errHandler = <<>>
  /\ errHandler' = <<NewHandler(<<"onErr", <<>>>>, <<>>)>>
  /\ UNCHANGED <<routerVars, notFoundHandler, wsTables, wsRoutes, listening, nRequests, reqs>>

\* onNotFound(handlerFunc, ...middlewares)
OnNotFound ==
  /\ ~listening
  /\ notFoundHandler = <<>>
  /\ notFoundHandler' = <<NewHandler(<<"onNotFound", <<>>>>, <<>>)>>
  /\ UNCHANGED <<routerVars, errHandler, wsTables, wsRoutes, listening, nRequests, reqs>>

WsCallbackNames == {"open", "message", "close", "drain", "onConnect"}

\* ws(path, handlers): the path is flagged and each callback given is stored.
Ws(path, given) ==
  /\ ~listening
  /\ wsRoutes' = wsRoutes \cup {path}
  /\ wsTables' = [k \in WsCallbackNames |->
                    IF k \in given THEN wsTables[k] \cup {path} ELSE wsTables[k]]
  /\ <<wsRoutes', wsTables'>> # <<wsRoutes, wsTables>>
  /\ UNCHANGED <<routerVars, notFoundHandler, errHandler, listening, nRequests, reqs>>

\* listen(port): the transport starts delivering requests.
Listen ==
  /\ ~listening
  /\ listening' = TRUE
  /\ UNCHANGED <<routerVars, notFoundHandler, errHandler, wsTables, wsRoutes, nRequests, reqs>>

\* ------------------------------------------------------ Router.handleHTTP

\* this.wsRoutes[path]
IsWsRoute(path) == path \in wsRoutes

\* A dispatch that lets a registered static HTTP route win over the WebSocket flag.
DispatchTargetHttpFirst(method, path) ==
  IF CacheKey(method, path) \in DOMAIN routes THEN "http"
  ELSE IF IsWsRoute(path) THEN "ws" ELSE "http"

\* Where handleHTTP sends the request: to handleWS when the path is flagged,
\* whatever the method, otherwise to find.
DispatchTarget(method, path) == IF IsWsRoute(path) THEN "ws" ELSE "http"

\* The request as it enters the compiled chain of a handler.
StartChain(req, which, handler, params, ctxErr) ==
  [req EXCEPT !.pc = "chain", !.which = which, !.handler = <<handler>>,
              !.depth = 1, !.dir = "down", !.params = params, !.ctxErr = ctxErr]

\* The catch block of handleHTTP: a new context gets the error (c.setErr(e));
\* the error handler runs on it, and without one the call returns undefined.
CatchReq(req, e) ==
  IF errHandler # <<>>
  THEN StartChain(req, "err", errHandler[1], <<>>, e)
  ELSE [req EXCEPT !.pc = "done", !.outcome = "undefined", !.val = Undef, !.ctxErr = e]

\* A miss that raises ROUTE_NOT_FOUND although a not-found handler is configured.
OnMissAlwaysRaise(req) == CatchReq(req, Err("ROUTE_NOT_FOUND"))

\* find returned no handler: the not-found handler runs on a new context when
\* one is configured, otherwise a ROUTE_NOT_FOUND error is thrown into the
\* catch block.
OnMiss(req) ==
  IF notFoundHandler # <<>>
  THEN StartChain(req, "notFound", notFoundHandler[1], <<>>, Undef)
  ELSE CatchReq(req, Err("ROUTE_NOT_FOUND"))

\* handleHTTP up to its first await: the WebSocket check, find, and the choice
\* of the handler to execute.
HandleHTTP(r, method, path) ==
  /\ listening
  /\ reqs[r].pc \in {"idle", "done"}
  /\ nRequests < MaxRequests
  /\ nRequests' = nRequests + 1
  /\ LET req == [IdleReq EXCEPT !.method = method, !.path = path]
         e == FindEffect(routes, nodes, resolvedRoutes, method, path)
     IN
     IF DispatchTarget(method, path) = "ws"
     THEN /\ reqs' = [reqs EXCEPT ![r] =
                        [req EXCEPT !.pc = IF path \in wsTables["onConnect"]
                                           THEN "wsConnect1" ELSE "wsUpgrade",
                                    !.which = "ws"]]
          /\ UNCHANGED <<resolvedRoutes, fifo, evicted>>
     ELSE /\ resolvedRoutes' = e.cache
          /\ fifo' = FifoAfter(fifo, resolvedRoutes, e.cache)
          /\ evicted' = (evicted \/ \E i \in DOMAIN resolvedRoutes :
                           \A j \in DOMAIN e.cache : e.cache[j].key # resolvedRoutes[i].key)
          /\ reqs' = [Orphaned(reqs, e.cache, nRequests + 1) EXCEPT ![r] =
               IF e.result.threw # "none" THEN CatchReq(req, Err(e.result.threw))
               ELSE IF e.result.handler # <<>>
               THEN [StartChain(req, "route", e.result.handler[1], e.result.params, Undef)
                       EXCEPT !.obj = IF CacheKey(method, path) \in DOMAIN routes
                                      THEN OwnObject ELSE CacheObject]
               ELSE OnMiss(req)]
  /\ UNCHANGED <<nodes, routes, globalMiddlewares, nUse, registered, lastReg, nRegistered,
                 stale, notFoundHandler, errHandler, wsTables, wsRoutes, listening>>

\* c.params[k] = v in the body of a middleware or handler of a route: the
\* write lands in the object the context holds, so it shows in every context
\* that holds the same object and, for the object of a cache entry, in what
\* find returns for the key.
WriteParams(r, k, v) ==
  LET req == reqs[r]
      written == [x \in DOMAIN req.params \cup {k} |-> IF x = k THEN v ELSE req.params[x]]
      key == CacheKey(req.method, req.path)
      same(o) == /\ o.obj = req.obj /\ req.obj # OwnObject
                 /\ CacheKey(o.method, o.path) = key
  IN
  /\ req.pc = "chain" /\ req.which = "route" /\ ~req.wrote
  /\ reqs' = [o \in DOMAIN reqs |->
                IF o = r THEN [req EXCEPT !.params = written, !.wrote = TRUE]
                ELSE IF same(reqs[o]) THEN [reqs[o] EXCEPT !.params = written]
                ELSE reqs[o]]
  /\ resolvedRoutes' =
       IF req.obj = CacheObject
       THEN [i \in DOMAIN resolvedRoutes |->
               IF resolvedRoutes[i].key = key
               THEN [resolvedRoutes[i] EXCEPT !.value.params = written]
               ELSE resolvedRoutes[i]]
       ELSE resolvedRoutes
  /\ UNCHANGED <<nodes, routes, globalMiddlewares, nUse, registered, lastReg, nRegistered,
                 stale, fifo, evicted, notFoundHandler, errHandler, wsTables, wsRoutes,
                 listening, nRequests>>

\* -------------------------------------------- Handler.precompileChain, execute

\* What the wrapper of one middleware yields for the middleware's result: an
\* Error("no result?") when the result is falsy.
NoResultCheck(result) == IF JsTruthy(result) THEN result ELSE Err("no result?")

\* A middleware of the chain runs up to its call of next().
ChainDown(r) ==
  LET req == reqs[r]
      mws == req.handler[1].middlewares
  IN
  /\ req.pc = "chain" /\ req.dir = "down" /\ req.depth <= Len(mws)
  /\ mws[req.depth] \notin ShortCircuits
  /\ reqs' = [reqs EXCEPT ![r] =
       [req EXCEPT !.trace = Append(@, Event("pre", mws[req.depth])),
                   !.depth = @ + 1]]
  /\ UNCHANGED <<routerVars, notFoundHandler, errHandler, wsTables, wsRoutes, listening,
                 nRequests>>

\* A middleware of the chain runs and returns v without calling next(): the
\* rest of the chain is not entered, and the wrapper checks the value.
ChainShort(r, v) ==
  LET req == reqs[r]
      mws == req.handler[1].middlewares
  IN
  /\ req.pc = "chain" /\ req.dir = "down" /\ req.depth <= Len(mws)
  /\ mws[req.depth] \in ShortCircuits
  /\ reqs' = [reqs EXCEPT ![r] =
       [req EXCEPT !.trace = Append(@, Event("pre", mws[req.depth])),
                   !.cut = v, !.val = NoResultCheck(v), !.dir = "up",
                   !.depth = @ - 1]]
  /\ UNCHANGED <<routerVars, notFoundHandler, errHandler, wsTables, wsRoutes, listening,
                 nRequests>>

\* The innermost chain: the terminal handler runs and returns or throws.
ChainHandler(r, v) ==
  LET req == reqs[r]
      mws == req.handler[1].middlewares
  IN
  /\ req.pc = "chain" /\ req.dir = "down" /\ req.depth = Len(mws) + 1
  /\ reqs' = [reqs EXCEPT ![r] =
       [req EXCEPT !.trace = Append(@, Event("handler", req.which)),
                   !.val = v, !.ret = v, !.dir = "up", !.depth = Len(mws)]]
  /\ UNCHANGED <<routerVars, notFoundHandler, errHandler, wsTables, wsRoutes, listening,
                 nRequests>>

\* next() has settled inside a middleware: an error passes through it; on a
\* value the middleware runs its second part, returns the value, and the
\* wrapper checks it.
ChainUp(r) ==
  LET req == reqs[r]
      mws == req.handler[1].middlewares
  IN
  /\ req.pc = "chain" /\ req.dir = "up" /\ req.depth >= 1
  /\ reqs' = [reqs EXCEPT ![r] =
       IF req.val.kind = "error"
       THEN [req EXCEPT !.depth = @ - 1]
       ELSE [req EXCEPT !.trace = Append(@, Event("post", mws[req.depth])),
                        !.val = NoResultCheck(req.val),
                        !.depth = @ - 1]]
  /\ UNCHANGED <<routerVars, notFoundHandler, errHandler, wsTables, wsRoutes, listening,
                 nRequests>>

\* Handler.execute: a Response passes, a number or string becomes a text
\* response, anything else a JSON response.
Coerce(v) ==
  IF v.kind = "Response" THEN v
  ELSE IF v.kind \in {"number", "string"} THEN [kind |-> "Response", text |-> v.text]
  ELSE [kind |-> "Response", text |-> "json"]

\* The compiled chain has settled: execute coerces a value; an error of the
\* route's chain reaches the catch block of handleHTTP, an error of the
\* not-found or error handler's chain rejects the call.
ChainDone(r) ==
  LET req == reqs[r] IN
  /\ req.pc = "chain" /\ req.dir = "up" /\ req.depth = 0
  /\ reqs' = [reqs EXCEPT ![r] =
       IF req.val.kind # "error"
       THEN [req EXCEPT !.pc = "done", !.outcome = "response", !.val = Coerce(req.val)]
       ELSE IF req.which = "route" THEN CatchReq(req, req.val)
       ELSE [req EXCEPT !.pc = "done", !.outcome = "rejected"]]
  /\ UNCHANGED <<routerVars, notFoundHandler, errHandler, wsTables, wsRoutes, listening,
                 nRequests>>

\* -------------------------------------------------------- Router.handleWS

\* One awaited call of onConnect, the first (await onConnect(context)) or the
\* second (await this.wsOnConnects[path](context)): it returns, or throws and
\* handleWS rethrows it as a WEBSOCKET_UPGRADE_FAILURE, which rejects the
\* handleHTTP call.
WsOnConnect(r, ok) ==
  LET req == reqs[r] IN
  /\ req.pc \in {"wsConnect1", "wsConnect2"}
  /\ reqs' = [reqs EXCEPT ![r] =
       LET logged == [req EXCEPT !.trace = Append(@, Event("onConnect", "ws"))] IN
       IF ~ok
       THEN [logged EXCEPT !.pc = "done", !.outcome = "rejected",
                           !.val = Err("WEBSOCKET UPGRADE FAILURE")]
       ELSE [logged EXCEPT !.pc = IF req.pc = "wsConnect1"
                                  THEN "wsConnect2" ELSE "wsUpgrade"]]
  /\ UNCHANGED <<routerVars, notFoundHandler, errHandler, wsTables, wsRoutes, listening,
                 nRequests>>

\* server.upgrade(req, context): true, false, or an exception.
WsUpgrade(r, res) ==
  LET req == reqs[r] IN
  /\ req.pc = "wsUpgrade"
  /\ reqs' = [reqs EXCEPT ![r] =
       LET logged == [req EXCEPT !.trace = Append(@, Event("upgrade", res)), !.pc = "done"] IN
       IF res = "true" THEN [logged EXCEPT !.outcome = "upgraded"]
       ELSE IF res = "false" THEN [logged EXCEPT !.outcome = "undefined"]
       ELSE [logged EXCEPT !.outcome = "rejected", !.val = Err("WEBSOCKET UPGRADE FAILURE")]]
  /\ UNCHANGED <<routerVars, notFoundHandler, errHandler, wsTables, wsRoutes, listening,
                 nRequests>>

\* ------------------------------------------------------------ specification

Init ==
  /\ nodes = (Root :> NewTrieNode) @@
             [id \in {InheritedId(k) : k \in ObjectPrototypeKeys} |-> InheritedObject]
  /\ routes = <<>>
  /\ resolvedRoutes = <<>>
  /\ globalMiddlewares = <<>>
  /\ nUse = 0
  /\ registered = {}
  /\ lastReg = [method |-> "", path |-> <<>>, threw |-> "none", again |-> FALSE]
  /\ nRegistered = 0
  /\ stale = FALSE
  /\ fifo = <<>>
  /\ evicted = FALSE
  /\ notFoundHandler = <<>>
  /\ errHandler = <<>>
  /\ wsTables = [k \in WsCallbackNames |-> {}]
  /\ wsRoutes = {}
  /\ listening = FALSE
  /\ nRequests = 0
  /\ reqs = [r \in ReqIds |-> IdleReq]

RegisterRoute == \E r \in Registrations : Register(r[1], r[2], HandlerFuncOf(r[1], r[2]), <<>>)

FindRoute == \E r \in Requests : Find(r[1], r[2])

Next == RegisterRoute \/ FindRoute

Spec == Init /\ [][Next]_vars

\* Routes that name one parameter position differently, by method and by path.
ParamRegistrations ==
  { <<"GET", <<Lit("route"), Prm("id")>> >>,
    <<"GET", <<Lit("route"), Prm("name")>> >>,
    <<"POST", <<Lit("route"), Prm("id")>> >>,
    <<"POST", <<Lit("route"), Prm("name")>> >>,
    <<"GET", <<Lit("route"), Prm("name"), Lit("test"), Prm("id")>> >> }

ParamRequests ==
  { <<"GET", <<Lit("route"), Lit("12398")>> >>,
    <<"POST", <<Lit("route"), Lit("12398")>> >>,
    <<"GET", <<Lit("route"), Lit("12398"), Lit("test"), Lit("asdf")>> >>,
    <<"GET", <<Lit("route")>> >> }

RegisterParamRoute ==
  \E r \in ParamRegistrations : Register(r[1], r[2], HandlerFuncOf(r[1], r[2]), <<>>)

FindParamRoute == \E r \in ParamRequests : Find(r[1], r[2])

NextParam == RegisterParamRoute \/ FindParamRoute

SpecParam == Init /\ [][NextParam]_vars

\* Routes that meet in the trie: a literal and a parameter child under route,
\* a parameter and a wildcard child under files, a path registered with and
\* without a trailing slash, and a method registered on the wildcard only.
TrieRegistrations ==
  { <<"GET", <<Lit("route"), Prm("id")>> >>,
    <<"GET", <<Lit("route"), Prm("id"), SegEmpty>> >>,
    <<"GET", <<Lit("route"), Lit("12398"), SegStar>> >>,
    <<"GET", <<Lit("files"), Prm("id")>> >>,
    <<"GET", <<Lit("files"), SegStar>> >>,
    <<"POST", <<Lit("files"), SegStar>> >> }

\* The find calls on that trie.
TrieRequests ==
  { <<"GET", <<Lit("route"), Lit("12398")>> >>,
    <<"GET", <<Lit("route"), Lit("12398"), SegEmpty>> >>,
    <<"GET", <<Lit("route"), Lit("12398"), Lit("extra")>> >>,
    <<"GET", <<Lit("route"), Lit("77")>> >>,
    <<"GET", <<Lit("route"), Lit("constructor")>> >>,
    <<"GET", <<Lit("files"), Lit("a")>> >>,
    <<"GET", <<Lit("files"), Lit("a"), Lit("b")>> >>,
    <<"POST", <<Lit("files"), Lit("a")>> >>,
    <<"POST", <<Lit("files"), Lit("a"), Lit("b")>> >> }

RegisterTrieRoute ==
  \E r \in TrieRegistrations : Register(r[1], r[2], HandlerFuncOf(r[1], r[2]), <<>>)

FindTrieRoute == \E r \in TrieRequests : Find(r[1], r[2])

NextTrie == RegisterTrieRoute \/ FindTrieRoute

SpecTrie == Init /\ [][NextTrie]_vars

\* The application: setup calls, then listen(), then requests.

\* The routes the application registers, with their route-level middlewares.
AppRoutes ==
  { <<"GET", <<Lit("route"), Prm("id")>>, RouteMws>>,
    <<"GET", <<Lit("files"), Lit("a")>>, <<>>>> }

\* The paths it registers for WebSockets, and the callbacks it gives.
AppWsPaths == { <<Lit("files"), Lit("a")>> }
AppWsCallbacks == { {"open", "message", "close", "drain"}, {"onConnect", "open"} }

\* The application's requests are delivered one after the other.
AppReqIds == {"r1"}

\* The requests the transport delivers.
AppRequests ==
  { <<"GET", <<Lit("route"), Lit("12398")>> >>, <<"GET", <<Lit("route")>> >>,
    <<"GET", <<Lit("route"), Lit("constructor")>> >>,
    <<"GET", <<Lit("files"), Lit("a")>> >>, <<"POST", <<Lit("files"), Lit("a")>> >> }

SetupRegister ==
  \E a \in AppRoutes : ~listening /\ Register(a[1], a[2], HandlerFuncOf(a[1], a[2]), a[3])

SetupUse == Use(GlobalMws)

SetupWs == \E p \in AppWsPaths, given \in AppWsCallbacks : Ws(p, given)

Request == \E r \in AppReqIds, q \in AppRequests : HandleHTTP(r, q[1], q[2])

MiddlewareStep == \E r \in AppReqIds : ChainDown(r)

HandlerStep == \E r \in AppReqIds, v \in HandlerReturns : ChainHandler(r, v)

ReturnStep == \E r \in AppReqIds : ChainUp(r)

ExecuteDone == \E r \in AppReqIds : ChainDone(r)

OnConnectStep == \E r \in AppReqIds, ok \in BOOLEAN : WsOnConnect(r, ok)

UpgradeStep == \E r \in AppReqIds, res \in {"true", "false", "throws"} : WsUpgrade(r, res)

NextApp ==
  \/ SetupRegister \/ SetupUse \/ SetupWs \/ OnErr \/ OnNotFound \/ Listen
  \/ Request \/ MiddlewareStep \/ HandlerStep \/ ReturnStep \/ ExecuteDone
  \/ OnConnectStep \/ UpgradeStep

SpecApp == Init /\ [][NextApp]_vars

\* Chains with a middleware that does not call next(), and routes of a group.

\* G, the middleware of the group, awaits next() and returns its value.
GroupMws == <<"G">>

\* S returns one of these without calling next().
ShortReturns == {Str("short"), Str("")}

\* router.get("/route/:id", h, S, C)
ChainDirectRoutes == { <<"GET", <<Lit("route"), Prm("id")>>, <<"S", "C">> >> }

\* router.group("/files", G).get("/a", h, C)
ChainGroups == { RouterGroup(<<Lit("files")>>, GroupMws) }
ChainGroupRoutes == { <<"GET", <<Lit("a")>>, RouteMws>> }

ChainRequests ==
  { <<"GET", <<Lit("route"), Lit("12398")>> >>, <<"GET", <<Lit("files"), Lit("a")>> >> }

ChainRegister ==
  \E a \in ChainDirectRoutes :
    ~listening /\ Register(a[1], a[2], HandlerFuncOf(a[1], a[2]), a[3])

ChainGroupRegister ==
  \E g \in ChainGroups, a \in ChainGroupRoutes :
    ~listening /\ GroupGet(g, a[2], HandlerFuncOf(a[1], PrefixedPath(g, a[2])), a[3])

ChainRequest == \E r \in AppReqIds, q \in ChainRequests : HandleHTTP(r, q[1], q[2])

ShortStep == \E r \in AppReqIds, v \in ShortReturns : ChainShort(r, v)

NextChain ==
  \/ SetupUse \/ ChainRegister \/ ChainGroupRegister \/ Listen
  \/ ChainRequest \/ MiddlewareStep \/ ShortStep \/ HandlerStep \/ ReturnStep \/ ExecuteDone

SpecChain == Init /\ [][NextChain]_vars

\* Routes of a group created by a group.

\* H, the middleware of the inner group, awaits next() and returns its value.
InnerMws == <<"H">>

\* outer = router.group("/api", G); inner = outer.group("/v1", H)
OuterGroup == RouterGroup(<<Lit("api")>>, GroupMws)
InnerPrefix == <<Lit("v1")>>
InnerGroup == GroupGroup(OuterGroup, InnerPrefix, InnerMws)

\* inner.get("/x", h, C); inner.get("/:id", h, C); inner.get("/y", h)
NestedRoutes ==
  { <<"GET", <<Lit("x")>>, RouteMws>>, <<"GET", <<Prm("id")>>, RouteMws>>,
    <<"GET", <<Lit("y")>>, <<>> >> }

\* outer.get("/x", h, C)
OuterRoutes == { <<"GET", <<Lit("x")>>, RouteMws>> }

NestedRequests ==
  { <<"GET", <<Lit("api"), Lit("v1"), Lit("x")>> >>,
    <<"GET", <<Lit("api"), Lit("v1"), Lit("12398")>> >>,
    <<"GET", <<Lit("api"), Lit("x")>> >>,
    <<"GET", <<Lit("v1"), Lit("x")>> >> }

NestedRegister ==
  \E a \in NestedRoutes :
    /\ ~listening
    /\ GroupGet(InnerGroup, a[2], HandlerFuncOf(a[1], PrefixedPath(InnerGroup, a[2])), a[3])

OuterRegister ==
  \E a \in OuterRoutes :
    /\ ~listening
    /\ GroupGet(OuterGroup, a[2], HandlerFuncOf(a[1], PrefixedPath(OuterGroup, a[2])), a[3])

NestedRequest == \E r \in AppReqIds, q \in NestedRequests : HandleHTTP(r, q[1], q[2])

NextNested ==
  \/ SetupUse \/ NestedRegister \/ OuterRegister \/ Listen
  \/ NestedRequest \/ MiddlewareStep \/ HandlerStep \/ ReturnStep \/ ExecuteDone

SpecNested == Init /\ [][NextNested]_vars

\* Requests in flight together: the transport delivers a request while the
\* handleHTTP call of another one is suspended at an await, and find is also
\* called directly.

ConcRoutes ==
  { <<"GET", <<Lit("route"), Prm("id")>>, RouteMws>>,
    <<"GET", <<Lit("files"), SegStar>>, <<>>>>,
    <<"GET", <<Lit("files"), Lit("a")>>, <<>>>> }

ConcRequests ==
  { <<"GET", <<Lit("route"), Lit("12398")>> >>,
    <<"GET", <<Lit("files"), Lit("a"), Lit("b")>> >>,
    <<"GET", <<Lit("files"), Lit("a")>> >>,
    <<"GET", <<Lit("route")>> >> }

\* What the terminal handlers of these requests do: return a string, or throw.
ConcReturns == {Str("ok"), Err("handler")}

ConcRegister ==
  \E a \in ConcRoutes : ~listening /\ Register(a[1], a[2], HandlerFuncOf(a[1], a[2]), a[3])

ConcFind == \E q \in ConcRequests : Find(q[1], q[2])

ConcRequest == \E r \in ReqIds, q \in ConcRequests : HandleHTTP(r, q[1], q[2])

ConcMiddlewareStep == \E r \in ReqIds : ChainDown(r)

ConcHandlerStep == \E r \in ReqIds, v \in ConcReturns : ChainHandler(r, v)

ConcReturnStep == \E r \in ReqIds : ChainUp(r)

ConcExecuteDone == \E r \in ReqIds : ChainDone(r)

NextConc ==
  \/ ConcRegister \/ Listen \/ ConcFind \/ ConcRequest
  \/ ConcMiddlewareStep \/ ConcHandlerStep \/ ConcReturnStep \/ ConcExecuteDone

SpecConc == Init /\ [][NextConc]_vars

\* Handlers that write to c.params, on requests in flight together.

SharedRoutes ==
  { <<"GET", <<Lit("route"), Prm("id")>>, <<>>>>,
    <<"GET", <<Lit("files"), Lit("a")>>, <<>>>> }

SharedRequests ==
  { <<"GET", <<Lit("route"), Lit("12398")>> >>,
    <<"GET", <<Lit("route"), Lit("77")>> >>,
    <<"GET", <<Lit("files"), Lit("a")>> >> }

\* The write of the handlers: c.params["seen"] = "yes"
WrittenKey == Lit("seen")
WrittenValue == Lit("yes")

SharedRegister ==
  \E a \in SharedRoutes : ~listening /\ Register(a[1], a[2], HandlerFuncOf(a[1], a[2]), a[3])

SharedRequest == \E r \in ReqIds, q \in SharedRequests : HandleHTTP(r, q[1], q[2])

WriteStep == \E r \in ReqIds : WriteParams(r, WrittenKey, WrittenValue)

NextShared ==
  \/ SharedRegister \/ Listen \/ SharedRequest \/ WriteStep
  \/ ConcHandlerStep \/ ConcExecuteDone

SpecShared == Init /\ [][NextShared]_vars

\* ------------------------------------------------------------------ claims

RouteId == <<Lit("route"), Prm("id")>>
RouteName == <<Lit("route"), Prm("name")>>
RouteIdTestName == <<Lit("route"), Prm("id"), Lit("test"), Prm("name")>>
FilesStar == <<Lit("files"), SegStar>>
FilesA == <<Lit("files"), Lit("a")>>

\* What find(method, path) returns or throws in the current state.
FindNow(method, path) == FindEffect(routes, nodes, resolvedRoutes, method, path).result

\* What the resolution without the cache yields: static table, then trie walk.
Uncached(method, path) == FindEffect(routes, nodes, <<>>, method, path).result

\* The request path has no piece that is a property name of Object.prototype.
OffPrototype(path) == \A i \in DOMAIN path : path[i] \notin ObjectPrototypeKeys

InCache(method, path) ==
  \E i \in DOMAIN resolvedRoutes : resolvedRoutes[i].key = CacheKey(method, path)

\* C1: with GET /route/:id the only route, find("GET", p) returns a defined
\* handler exactly when p is the piece route followed by exactly one more piece.
C1_SingleParam ==
  registered = {<<"GET", RouteId>>} =>
    \A p \in ReqPaths :
      (FindNow("GET", p).handler # <<>>)
        <=> (Len(Parts(p)) = 2 /\ Parts(p)[1] = Lit("route"))

\* C1, for request paths with no piece named like a property of
\* Object.prototype: the same equivalence, and fewer or extra pieces give the
\* negative result without an error.
C1_OffPrototype ==
  registered = {<<"GET", RouteId>>} =>
    \A p \in ReqPaths : OffPrototype(p) =>
      /\ FindNow("GET", p).threw = "none"
      /\ (FindNow("GET", p).handler # <<>>)
           <=> (Len(Parts(p)) = 2 /\ Parts(p)[1] = Lit("route"))

C1_Reached ==
  /\ registered = {<<"GET", RouteId>>}
  /\ InCache("GET", <<Lit("route"), Lit("12398")>>)

\* The params a route pattern binds on a request of the same length: every
\* parameter piece's name to the request's piece at that position.
ParamsOf(routeParts, reqParts) ==
  LET idx == {i \in DOMAIN routeParts : StartsWithColon(routeParts[i])} IN
  [k \in {Slice1(routeParts[i]) : i \in idx} |->
     reqParts[CHOOSE i \in idx : Slice1(routeParts[i]) = k]]

\* The route pattern has parameter pieces, with names that differ.
HasDistinctParams(routeParts) ==
  LET idx == {i \in DOMAIN routeParts : StartsWithColon(routeParts[i])} IN
  /\ idx # {}
  /\ \A i, j \in idx : i # j => routeParts[i] # routeParts[j]

\* The route whose handler a find returned: the path it was registered with.
MatchedRoute(res) == res.handler[1].mainHandler[2]

\* C2: whenever find matches a route with parameter pieces, the params bind
\* every parameter name of that route to the request's piece at its position.
C2_ParamsBound ==
  \A r \in Requests :
    LET res == FindNow(r[1], r[2]) IN
    (res.handler # <<>> /\ HasDistinctParams(Parts(MatchedRoute(res)))) =>
      res.params = ParamsOf(Parts(MatchedRoute(res)), Parts(r[2]))

\* C2, for requests whose pieces are none of ":param" and the inherited names,
\* while no registered route names the position after route differently.
C2_PlainValues ==
  (\A q \in registered : q[2] # RouteName) =>
    \A r \in Requests :
      LET res == FindNow(r[1], r[2]) IN
      (/\ res.handler # <<>>
       /\ HasDistinctParams(Parts(MatchedRoute(res)))
       /\ OffPrototype(r[2])
       /\ \A i \in DOMAIN r[2] : r[2][i] # PARAM_KEY) =>
        res.params = ParamsOf(Parts(MatchedRoute(res)), Parts(r[2]))

\* C3: registering a (method, path) that was registered before raises
\* ROUTE_ALREADY_REGISTERED, and the first registration on a new router succeeds.
C3_Duplicate ==
  /\ lastReg.again => lastReg.threw = "ROUTE_ALREADY_REGISTERED"
  /\ nRegistered = 1 => lastReg.threw = "none"

\* C3, the part about the second call alone.
C3_SecondRaises == lastReg.again => lastReg.threw = "ROUTE_ALREADY_REGISTERED"

\* C3, the first call for paths with no inherited name among their pieces.
C3_FirstOffPrototype ==
  (nRegistered = 1 /\ OffPrototype(lastReg.path)) => lastReg.threw = "none"

C5_Wildcard ==
  registered = {<<"GET", FilesStar>>} =>
    \A p \in ReqPaths : (Len(Parts(p)) >= 2 /\ Parts(p)[1] = Lit("files")) =>
      /\ FindNow("GET", p).handler # <<>>
      /\ FindNow("GET", p).handler[1].mainHandler = HandlerFuncOf("GET", FilesStar)
      /\ FindNow("GET", p).params = <<>>

\* C5, for request paths with no piece named like a property of Object.prototype.
C5_OffPrototype ==
  registered = {<<"GET", FilesStar>>} =>
    \A p \in ReqPaths : (Len(Parts(p)) >= 2 /\ Parts(p)[1] = Lit("files") /\ OffPrototype(p)) =>
      /\ FindNow("GET", p).handler # <<>>
      /\ FindNow("GET", p).handler[1].mainHandler = HandlerFuncOf("GET", FilesStar)
      /\ FindNow("GET", p).params = <<>>

\* C6: when no registration was made after the cache was first filled, every
\* find returns what the resolution without the cache returns.
C6_CacheTransparent ==
  ~stale => \A r \in Requests : FindNow(r[1], r[2]) = Uncached(r[1], r[2])

\* More distinct dynamic paths than the capacity were resolved: the cache is
\* full and an entry was evicted.
C6_Reached == ~stale /\ evicted /\ Len(resolvedRoutes) = MAX_CACHE_SIZE

\* C7: an entry leaving the cache is the one inserted earliest among those
\* present, and the order in which the cache will evict is the order of
\* insertion after every call (a hit moves nothing).
C7_Fifo ==
  [][ /\ \A i \in DOMAIN resolvedRoutes :
           (\A j \in DOMAIN resolvedRoutes' : resolvedRoutes'[j].key # resolvedRoutes[i].key)
             => resolvedRoutes[i].key = fifo[1]
      /\ KeysOf(resolvedRoutes') = fifo' ]_vars

C7_Reached == evicted /\ Len(fifo) = MAX_CACHE_SIZE

\* The events of one pass through a chain whose middlewares all await next()
\* and return its value: first parts outermost first, the handler once, second
\* parts innermost first.
Reverse(q) == [i \in DOMAIN q |-> q[Len(q) + 1 - i]]

Onion(mws, which) ==
  [i \in DOMAIN mws |-> Event("pre", mws[i])] \o <<Event("handler", which)>>
    \o [i \in DOMAIN mws |-> Event("post", Reverse(mws)[i])]

\* The compiled chain of the route of request r has settled.
RouteChainSettled(r) ==
  /\ reqs[r].pc = "chain" /\ reqs[r].which = "route"
  /\ reqs[r].dir = "up" /\ reqs[r].depth = 0

\* C8: on a route with global middlewares [A, B] and route middleware [C],
\* when the handler returns, the request has run A, B, C, the handler once,
\* then the second parts of C, B, A.
C8_OnionOrder ==
  \A r \in ReqIds :
    (/\ RouteChainSettled(r)
     /\ reqs[r].handler[1].middlewares = <<"A", "B", "C">>
     /\ reqs[r].ret.kind # "error") =>
      reqs[r].trace = Onion(<<"A", "B", "C">>, "route")

\* C8, when the handler returns a truthy value: the order holds for every
\* chain, and the chain yields the handler's value.
C8_TruthyResult ==
  \A r \in ReqIds :
    (RouteChainSettled(r) /\ JsTruthy(reqs[r].ret) /\ reqs[r].ret.kind # "error") =>
      /\ reqs[r].trace = Onion(reqs[r].handler[1].middlewares, "route")
      /\ reqs[r].val = reqs[r].ret

C8_Reached ==
  \E r \in ReqIds :
    /\ RouteChainSettled(r)
    /\ reqs[r].handler[1].middlewares = <<"A", "B", "C">>
    /\ reqs[r].ret = Str("ok")

\* C9: a request for a path registered with ws() is handed to WebSocket
\* dispatch whatever its method, and no HTTP handler or middleware runs for it.
C9_WsPrecedence ==
  \A r \in ReqIds :
    (reqs[r].pc # "idle" /\ reqs[r].path \in wsRoutes) =>
      /\ reqs[r].which = "ws"
      /\ \A i \in DOMAIN reqs[r].trace : reqs[r].trace[i].ev \in {"onConnect", "upgrade"}

\* A GET request on a path that is registered both with ws() and with get().
C9_Reached ==
  \E r \in ReqIds :
    /\ reqs[r].pc = "done" /\ reqs[r].outcome = "upgraded"
    /\ reqs[r].method = "GET" /\ reqs[r].path = FilesA
    /\ <<"GET", FilesA>> \in registered

\* The onConnect calls a request has made.
OnConnectCount(r) ==
  Cardinality({i \in DOMAIN reqs[r].trace : reqs[r].trace[i].ev = "onConnect"})

UpgradeAttempted(r) == \E i \in DOMAIN reqs[r].trace : reqs[r].trace[i].ev = "upgrade"

\* C10: when the upgrade of a path with an onConnect callback is attempted,
\* onConnect was invoked exactly once for the request, before the upgrade.
C10_OnConnectOnce ==
  \A r \in ReqIds :
    (reqs[r].path \in wsTables["onConnect"] /\ UpgradeAttempted(r)) =>
      /\ OnConnectCount(r) = 1
      /\ reqs[r].trace[Len(reqs[r].trace)].ev = "upgrade"

\* C10, as the code has it: every onConnect call precedes the upgrade, and
\* there are two of them.
C10_OnConnectTwice ==
  \A r \in ReqIds :
    (reqs[r].path \in wsTables["onConnect"] /\ UpgradeAttempted(r)) =>
      /\ OnConnectCount(r) = 2
      /\ reqs[r].trace[Len(reqs[r].trace)].ev = "upgrade"

\* The handleHTTP call of request r has returned or rejected.
Settled(r) == reqs[r].pc = "done"

\* C11: with an error handler configured, no error raised while a request is
\* handled leaves handleHTTP as a rejection (errors of the error handler's own
\* chain aside), and the error handler runs on a context carrying an error.
C11_ErrorsCaught ==
  errHandler # <<>> =>
    \A r \in ReqIds :
      /\ (Settled(r) /\ reqs[r].outcome = "rejected") => reqs[r].which = "err"
      /\ reqs[r].which = "err" => reqs[r].ctxErr.kind = "error"

\* C11, for the errors raised inside the try block of handleHTTP and awaited
\* there (find, the route's chain, the route-not-found error): they reach the
\* error handler; a rejection comes from handleWS, from the not-found
\* handler's chain or from the error handler's chain only.
C11_TryBlockCaught ==
  errHandler # <<>> =>
    \A r \in ReqIds :
      /\ (Settled(r) /\ reqs[r].outcome = "rejected") =>
           reqs[r].which \in {"ws", "notFound", "err"}
      /\ reqs[r].which = "err" => reqs[r].ctxErr.kind = "error"

\* The result of server.upgrade for request r, "" when it was not attempted.
UpgradeResult(r) ==
  LET t == reqs[r].trace IN
  IF t # <<>> /\ t[Len(t)].ev = "upgrade" THEN t[Len(t)].who ELSE ""

WebSocketUpgradeFailure == Err("WEBSOCKET UPGRADE FAILURE")

\* C12: when the upgrade of a request on a WebSocket path reports failure or
\* throws, the call ends with a WEBSOCKET_UPGRADE_FAILURE error.
C12_UpgradeFailureRaises ==
  \A r \in ReqIds :
    UpgradeResult(r) \in {"false", "throws"} =>
      /\ reqs[r].outcome = "rejected"
      /\ reqs[r].val = WebSocketUpgradeFailure

\* C12, for an upgrade (or an onConnect callback) that throws.
C12_ThrowRaises ==
  \A r \in ReqIds :
    /\ UpgradeResult(r) = "throws" =>
         (reqs[r].outcome = "rejected" /\ reqs[r].val = WebSocketUpgradeFailure)
    /\ (Settled(r) /\ reqs[r].which = "ws" /\ reqs[r].outcome = "rejected") =>
         reqs[r].val = WebSocketUpgradeFailure

\* find(method, path) returns no handler and throws nothing.
IsMiss(method, path) == FindNow(method, path) = NoHandler

\* The terminal handler of a route ran for request r.
RouteHandlerRan(r) ==
  \E i \in DOMAIN reqs[r].trace : reqs[r].trace[i] = Event("handler", "route")

\* C13: for a request on a path that is no WebSocket path and that find
\* misses, the not-found handler is executed when one is configured and no
\* ROUTE_NOT_FOUND error is raised; without one the ROUTE_NOT_FOUND error is
\* raised; no route handler runs either way.
C13_NotFound ==
  \A r \in ReqIds :
    (/\ reqs[r].pc # "idle" /\ reqs[r].which # "ws"
     /\ IsMiss(reqs[r].method, reqs[r].path)) =>
      /\ ~RouteHandlerRan(r)
      /\ IF notFoundHandler # <<>>
         THEN reqs[r].which = "notFound" /\ reqs[r].ctxErr = Undef
         ELSE reqs[r].ctxErr = Err("ROUTE_NOT_FOUND") /\ reqs[r].which \in {"", "err"}

\* The not-found handler answered a request that find missed.
C13_Reached ==
  \E r \in ReqIds :
    /\ Settled(r) /\ IsMiss(reqs[r].method, reqs[r].path)
    /\ reqs[r].which = "notFound" /\ reqs[r].outcome = "response"
    /\ registered # {}

\* The other case: no not-found handler, and the error reached the error handler.
C13_RaisedReached ==
  \E r \in ReqIds :
    /\ Settled(r) /\ IsMiss(reqs[r].method, reqs[r].path)
    /\ notFoundHandler = <<>> /\ reqs[r].which = "err" /\ reqs[r].outcome = "response"

\* The request path with one more slash at its end, and at its start.
TrailingSlash(path) == Append(path, SegEmpty)
LeadingSlash(path) == <<SegEmpty>> \o path

\* C14: two request paths with the same non-empty pieces resolve to the same
\* handler, and no two registered routes of one method differ by empty pieces
\* only (the second registration is refused as a duplicate).
C14_SlashInsensitive ==
  /\ \A r \in Requests : \A p \in ReqPaths :
       Parts(p) = Parts(r[2]) => FindNow(r[1], p).handler = FindNow(r[1], r[2]).handler
  /\ \A q1, q2 \in registered :
       (q1[1] = q2[1] /\ Parts(q1[2]) = Parts(q2[2])) => q1 = q2

\* C14, while no static route is registered: a request resolves alike with an
\* extra slash at its end or start, and dynamic routes that differ by empty
\* pieces only are never both registered.
C14_DynamicSlash ==
  (\A q \in registered : ~IsStaticPath(q[2])) =>
    /\ \A r \in Requests \cup TrieRequests :
         /\ Uncached(r[1], TrailingSlash(r[2])) = Uncached(r[1], r[2])
         /\ Uncached(r[1], LeadingSlash(r[2])) = Uncached(r[1], r[2])
    /\ \A q1, q2 \in registered :
         (q1[1] = q2[1] /\ Parts(q1[2]) = Parts(q2[2])) => q1 = q2

\* A route pattern during a walk: the pieces not yet consumed.
Walker(q) == [route |-> q, rest |-> Parts(q[2])]

Advance(S) == { [w EXCEPT !.rest = Tail(@)] : w \in S }

\* The handler function at the position the walk ended on, for the method.
AtTerminal(S, method) ==
  LET here == { w \in S : w.rest = <<>> /\ w.route[1] = method } IN
  IF here = {} THEN <<>>
  ELSE <<HandlerFuncOf(method, (CHOOSE w \in here : TRUE).route[2])>>

RECURSIVE Greedy(_, _, _)
\* Greedy matching stated on the registered patterns: S holds the patterns
\* that share the position reached; a piece moves to the patterns with that
\* literal next if there are any, else to those with a parameter next, else
\* to those with a wildcard next (which ends the walk); there is no way back.
Greedy(S, parts, method) ==
  IF parts = <<>> THEN AtTerminal(S, method)
  ELSE
    LET part == Head(parts)
        open == { w \in S : w.rest # <<>> }
        exact == { w \in open : ~StartsWithColon(Head(w.rest)) /\ ~IsStar(Head(w.rest))
                                  /\ Head(w.rest) = part }
        param == { w \in open : StartsWithColon(Head(w.rest)) }
        wild == { w \in open : IsStar(Head(w.rest)) }
    IN
    IF exact # {} THEN Greedy(Advance(exact), Tail(parts), method)
    ELSE IF param # {} THEN Greedy(Advance(param), Tail(parts), method)
    ELSE IF wild # {} THEN AtTerminal(Advance(wild), method)
    ELSE <<>>

\* The dynamic routes registered, as walkers at the root.
DynamicWalkers == { Walker(q) : q \in { x \in registered : ~IsStaticPath(x[2]) } }

\* The handler function the trie walk of find yields, <<>> for none.
WalkedFunc(method, path) ==
  LET res == TrieResolve(nodes, method, path) IN
  IF res.handler = <<>> THEN <<>> ELSE <<res.handler[1].mainHandler>>

\* C18: the trie walk of find returns, without an error, the handler greedy
\* matching without backtracking selects among the registered patterns, and
\* none when the branch chosen fails.
C18_Greedy ==
  \A r \in TrieRequests :
    /\ TrieResolve(nodes, r[1], r[2]).threw = "none"
    /\ WalkedFunc(r[1], r[2]) = Greedy(DynamicWalkers, Parts(r[2]), r[1])

\* C18, for requests with no piece named like a property of Object.prototype.
C18_OffPrototype ==
  \A r \in TrieRequests : OffPrototype(r[2]) =>
    /\ TrieResolve(nodes, r[1], r[2]).threw = "none"
    /\ WalkedFunc(r[1], r[2]) = Greedy(DynamicWalkers, Parts(r[2]), r[1])

\* The literal child is taken and the walk is not retried through the
\* parameter child: /route/12398 has no handler although /route/:id is there.
C18_NoBacktrackReached ==
  /\ {<<"GET", <<Lit("route"), Prm("id")>> >>,
      <<"GET", <<Lit("route"), Lit("12398"), SegStar>> >>} \subseteq registered
  /\ WalkedFunc("GET", <<Lit("route"), Lit("12398")>>) = <<>>
  /\ WalkedFunc("GET", <<Lit("route"), Lit("77")>>) # <<>>

\* The parameter child is taken before the wildcard, and a method missing at
\* the node reached is a miss although the wildcard route has it.
C18_MethodMissReached ==
  /\ {<<"GET", <<Lit("files"), Prm("id")>> >>,
      <<"POST", <<Lit("files"), SegStar>> >>} \subseteq registered
  /\ WalkedFunc("POST", <<Lit("files"), Lit("a")>>) = <<>>
  /\ WalkedFunc("GET", <<Lit("files"), Lit("a")>>)
       = <<HandlerFuncOf("GET", <<Lit("files"), Prm("id")>>)>>

\* The compiled chain of request r has settled (on a value or an error).
ChainSettled(r) == reqs[r].pc = "chain" /\ reqs[r].dir = "up" /\ reqs[r].depth = 0

\* Every middleware of the chain of request r returns the result of next().
AllCallNext(r) ==
  \A i \in DOMAIN reqs[r].handler[1].middlewares :
    reqs[r].handler[1].middlewares[i] \notin ShortCircuits

\* C15: what the terminal handler returned or threw is what the compiled chain
\* yields to its caller, for chains whose middlewares all return the result
\* of next().
C15_Unmodified ==
  \A r \in ReqIds :
    (ChainSettled(r) /\ AllCallNext(r)) => reqs[r].val = reqs[r].ret

\* C15, for truthy values, for errors, and for chains without middlewares.
C15_TruthyUnmodified ==
  \A r \in ReqIds :
    (/\ ChainSettled(r) /\ AllCallNext(r)
     /\ (JsTruthy(reqs[r].ret) \/ reqs[r].handler[1].middlewares = <<>>)) =>
      reqs[r].val = reqs[r].ret

\* Both kinds propagated through a chain of three middlewares.
C15_TruthyReached ==
  \E r \in ReqIds :
    /\ ChainSettled(r) /\ Len(reqs[r].handler[1].middlewares) = 3
    /\ reqs[r].ret = Err("handler") /\ reqs[r].val = Err("handler")

\* The position of the first middleware of mws that does not call next(), 0 for none.
FirstShort(mws) ==
  IF \E i \in DOMAIN mws : mws[i] \in ShortCircuits
  THEN CHOOSE i \in DOMAIN mws :
         mws[i] \in ShortCircuits /\ \A j \in 1..(i - 1) : mws[j] \notin ShortCircuits
  ELSE 0

\* The events of a pass cut short at position k: the first parts down to the
\* middleware at k, then the second parts of those before it, innermost first.
ShortOnion(mws, k) ==
  [i \in 1..k |-> Event("pre", mws[i])] \o [i \in 1..(k - 1) |-> Event("post", mws[k - i])]

\* C19: when a middleware returns without calling next(), no later middleware
\* and no terminal handler runs, the middlewares before it run their second
\* parts, and the chain yields the value that middleware returned.
C19_ShortCircuit ==
  \A r \in ReqIds :
    (ChainSettled(r) /\ FirstShort(reqs[r].handler[1].middlewares) > 0) =>
      LET mws == reqs[r].handler[1].middlewares IN
      /\ reqs[r].trace = ShortOnion(mws, FirstShort(mws))
      /\ reqs[r].val = reqs[r].cut

\* C19, the part that holds for every value: nothing after the middleware runs.
C19_RestSkipped ==
  \A r \in ReqIds :
    (reqs[r].pc # "idle" /\ reqs[r].which = "route"
       /\ FirstShort(reqs[r].handler[1].middlewares) > 0) =>
      LET mws == reqs[r].handler[1].middlewares IN
      \A i \in DOMAIN reqs[r].trace :
        /\ reqs[r].trace[i].ev # "handler"
        /\ \A j \in (FirstShort(mws) + 1)..Len(mws) : reqs[r].trace[i].who # mws[j]

\* C19, when the value returned is truthy.
C19_TruthyShort ==
  \A r \in ReqIds :
    (/\ ChainSettled(r) /\ FirstShort(reqs[r].handler[1].middlewares) > 0
     /\ JsTruthy(reqs[r].cut)) =>
      LET mws == reqs[r].handler[1].middlewares IN
      /\ reqs[r].trace = ShortOnion(mws, FirstShort(mws))
      /\ reqs[r].val = reqs[r].cut

C19_TruthyReached ==
  \E r \in ReqIds :
    /\ ChainSettled(r) /\ reqs[r].handler[1].middlewares = <<"A", "B", "S", "C">>
    /\ reqs[r].cut = Str("short") /\ reqs[r].val = Str("short")

\* The handler a registered route holds in a static table and a trie.
HandlerIn(rts, trie, q) == FindEffect(rts, trie, <<>>, q[1], q[2]).result.handler

\* The group- and route-level middlewares the route q was registered with.
LevelMws(q) ==
  IF \E a \in ChainDirectRoutes : <<a[1], a[2]>> = q
  THEN (CHOOSE a \in ChainDirectRoutes : <<a[1], a[2]>> = q)[3]
  ELSE LET ga == CHOOSE ga \in ChainGroups \X ChainGroupRoutes :
                   <<ga[2][1], PrefixedPath(ga[1], ga[2][2])>> = q
       IN ga[1].middlewares \o ga[2][3]

\* The first parts run so far by request r, in order.
PreRun(r) == SelectSeq(reqs[r].trace, LAMBDA e : e.ev = "pre")

\* C20: a successful registration composes the route's chain from the global
\* middlewares of that moment followed by the group- and route-level ones; no
\* step changes the chain of a registered route; and a request on the route
\* runs the first parts of exactly that chain, in its order.
C20_ChainFixed ==
  [][ /\ \A q \in registered \cap registered' :
           HandlerIn(routes', nodes', q) = HandlerIn(routes, nodes, q)
      /\ \A q \in registered' \ registered :
           /\ HandlerIn(routes', nodes', q) # <<>>
           /\ HandlerIn(routes', nodes', q)[1].middlewares
                = globalMiddlewares \o LevelMws(q)
      /\ \A r \in ReqIds : reqs'[r].which = "route" =>
           /\ \E q \in registered' : reqs'[r].handler = HandlerIn(routes', nodes', q)
           /\ LET mws == reqs'[r].handler[1].middlewares
                  n == Len(SelectSeq(reqs'[r].trace, LAMBDA e : e.ev = "pre"))
              IN /\ n <= Len(mws)
                 /\ SelectSeq(reqs'[r].trace, LAMBDA e : e.ev = "pre")
                      = [i \in 1..n |-> Event("pre", mws[i])] ]_vars

\* use(A, B) came after the group's route was registered and before the other
\* route: a request on the group's route has run G and C only.
C20_Reached ==
  /\ globalMiddlewares = GlobalMws
  /\ HandlerIn(routes, nodes, <<"GET", <<Lit("files"), Lit("a")>> >>) # <<>>
  /\ HandlerIn(routes, nodes, <<"GET", <<Lit("files"), Lit("a")>> >>)[1].middlewares
       = <<"G", "C">>
  /\ HandlerIn(routes, nodes, <<"GET", <<Lit("route"), Prm("id")>> >>) # <<>>
  /\ HandlerIn(routes, nodes, <<"GET", <<Lit("route"), Prm("id")>> >>)[1].middlewares
       = <<"A", "B", "S", "C">>
  /\ \E r \in ReqIds :
       /\ Settled(r) /\ reqs[r].which = "route"
       /\ reqs[r].trace = Onion(<<"G", "C">>, "route")

\* The handleHTTP call of request r is suspended inside its chain.
InFlight(r) == reqs[r].pc = "chain"

\* C16: the resolution cache never holds more than MAX_CACHE_SIZE entries,
\* whatever find calls were made and however the requests interleave.
C16_CacheBounded == Len(resolvedRoutes) <= MAX_CACHE_SIZE

\* Two requests are suspended in their chains, the cache is full and an entry
\* was evicted.
C16_Reached ==
  /\ \A r \in ReqIds : InFlight(r)
  /\ reqs["r1"].path # reqs["r2"].path
  /\ \A r \in ReqIds : InCache(reqs[r].method, reqs[r].path)
  /\ evicted
  /\ Len(resolvedRoutes) = MAX_CACHE_SIZE

\* The find of a key would be answered without a successful trie walk: by the
\* static table, by the cache, or by a walk that fails.
NoSuccessfulWalk(method, path) ==
  \/ CacheKey(method, path) \in DOMAIN routes
  \/ CacheGet(resolvedRoutes, CacheKey(method, path)) # <<>>
  \/ TrieResolve(nodes, method, path).handler = <<>>

\* Slot r is the one the step delivers a request to: it changes in more than
\* the label of its params object, which an eviction changes in other slots.
DeliveredTo(r) == [reqs'[r] EXCEPT !.obj = reqs[r].obj] # reqs[r]

\* C17: the cache changes only by the insertion of the result of a successful
\* trie walk for a key that neither the static table nor the cache answered; a
\* request whose find is answered by the static table, by the cache or by a
\* failed walk leaves the cache and its order as they were; and no negative
\* result is ever in the cache.
C17_OnlyWalksCached ==
  [][ /\ resolvedRoutes' # resolvedRoutes =>
           \E q \in ConcRequests :
             /\ ~NoSuccessfulWalk(q[1], q[2])
             /\ resolvedRoutes' = CacheInsert(resolvedRoutes, CacheKey(q[1], q[2]),
                                              TrieResolve(nodes, q[1], q[2]))
      /\ nRequests' # nRequests =>
           \A r \in ReqIds :
             (DeliveredTo(r) /\ NoSuccessfulWalk(reqs'[r].method, reqs'[r].path)) =>
               (resolvedRoutes' = resolvedRoutes /\ fifo' = fifo)
      /\ \A i \in DOMAIN resolvedRoutes' : resolvedRoutes'[i].value.handler # <<>> ]_vars

\* Two requests for the same unmatched path have both walked the trie and
\* failed, and the cache holds other keys only.
C17_Reached ==
  /\ \A r \in ReqIds :
       /\ Settled(r)
       /\ reqs[r].ctxErr = Err("ROUTE_NOT_FOUND")
       /\ ~InCache(reqs[r].method, reqs[r].path)
  /\ reqs["r1"].path = reqs["r2"].path
  /\ resolvedRoutes # <<>>
  /\ registered # {}

\* The trie position of the parameter child under the piece route.
RouteParamNode == <<Lit("route"), PARAM_KEY>>

\* The nodes that are parameter children.
ParamNodes(trie) == { n \in DOMAIN trie : n # Root /\ n[Len(n)] = PARAM_KEY }

BoundParams(method, path) == Uncached(method, path).params

\* C22: the params of a request whose handling has written nothing are the
\* ones bound for it, whatever other requests wrote, and find returns for
\* every key the params bound for it.
C22_ParamsOwned ==
  /\ \A r \in ReqIds :
       (reqs[r].which = "route" /\ ~reqs[r].wrote) =>
         reqs[r].params = BoundParams(reqs[r].method, reqs[r].path)
  /\ \A q \in SharedRequests : FindNow(q[1], q[2]).params = BoundParams(q[1], q[2])

\* C22, for the keys answered by the static table: find returns a new {} on
\* every call, so a write stays in the context of the request that made it.
C22_StaticOwned ==
  /\ \A r \in ReqIds :
       (reqs[r].which = "route" /\ ~reqs[r].wrote
          /\ CacheKey(reqs[r].method, reqs[r].path) \in DOMAIN routes) =>
         reqs[r].params = <<>>
  /\ \A q \in SharedRequests :
       CacheKey(q[1], q[2]) \in DOMAIN routes => FindNow(q[1], q[2]).params = <<>>

\* A request on a static route has written, and another one of the same key
\* is in flight with empty params.
C22_StaticReached ==
  /\ reqs["r1"].pc = "chain" /\ reqs["r2"].pc = "chain"
  /\ reqs["r1"].path = reqs["r2"].path
  /\ CacheKey(reqs["r1"].method, reqs["r1"].path) \in DOMAIN routes
  /\ reqs["r1"].wrote /\ ~reqs["r2"].wrote /\ reqs["r2"].params = <<>>

\* Two requests of one dynamic key are in flight, one has written, and the
\* other one's params hold the written entry.
C22_SharedReached ==
  /\ reqs["r1"].pc = "chain" /\ reqs["r2"].pc = "chain"
  /\ reqs["r1"].path = reqs["r2"].path
  /\ reqs["r1"].wrote /\ ~reqs["r2"].wrote
  /\ WrittenKey \in DOMAIN reqs["r2"].params

\* The key a route of the inner group is expected under: outer prefix, inner
\* prefix, route path.
NestedKey(a) == <<a[1], OuterGroup.prefixPath \o InnerPrefix \o a[2]>>

\* The global middlewares at the time of a registration: use() only appends,
\* so they are a prefix of the present ones.
GlobalPrefixes ==
  { SubSeq(globalMiddlewares, 1, k) : k \in 0..Len(globalMiddlewares) }

\* The chain of request r runs the middlewares mws in their order before the
\* handler, and as the whole onion when nothing is thrown on the way back.
RanOnion(r, mws) ==
  /\ RouteHandlerRan(r) => PreRun(r) = [i \in DOMAIN mws |-> Event("pre", mws[i])]
  /\ (ChainSettled(r) /\ reqs[r].val.kind # "error") =>
       reqs[r].trace = Onion(mws, "route")

\* C23: a route registered through the group made by outer.group(...) is
\* registered under outer prefix + inner prefix + route path, and its chain is
\* the global middlewares of the time of the registration, then the outer
\* group's, then the inner group's, then the route-level ones; a request on
\* the route runs them in that order around the handler.
C23_NestedGroup ==
  \A a \in NestedRoutes :
    NestedKey(a) \in registered =>
      LET h == HandlerIn(routes, nodes, NestedKey(a)) IN
      /\ h # <<>>
      /\ h[1].mainHandler = HandlerFuncOf(a[1], NestedKey(a)[2])
      /\ \E g \in GlobalPrefixes :
           h[1].middlewares = g \o OuterGroup.middlewares \o InnerMws \o a[3]
      /\ \A r \in ReqIds :
           (reqs[r].which = "route" /\ reqs[r].handler = h) =>
             RanOnion(r, h[1].middlewares)

\* C23, the path: every registration through the inner group lands under
\* outer prefix + inner prefix + route path with the handler given, and a
\* request on that path resolves to it.
C23_NestedPath ==
  /\ registered \subseteq
       { NestedKey(a) : a \in NestedRoutes }
         \cup { <<a[1], OuterGroup.prefixPath \o a[2]>> : a \in OuterRoutes }
  /\ \A a \in NestedRoutes :
       NestedKey(a) \in registered =>
         /\ HandlerIn(routes, nodes, NestedKey(a)) # <<>>
         /\ HandlerIn(routes, nodes, NestedKey(a))[1].mainHandler
              = HandlerFuncOf(a[1], NestedKey(a)[2])
  /\ \A r \in ReqIds :
       (reqs[r].which = "route" /\ reqs[r].path = <<Lit("api"), Lit("v1"), Lit("x")>>
          /\ <<"GET", reqs[r].path>> \in registered) =>
         reqs[r].handler[1].mainHandler
           = HandlerFuncOf("GET", <<Lit("api"), Lit("v1"), Lit("x")>>)

\* C23, the chain the code composes: the global middlewares of the time of
\* the registration, then the inner group's, then the route-level ones; the
\* outer group's middlewares are not in it.
C23_InnerOnly ==
  \A a \in NestedRoutes :
    NestedKey(a) \in registered =>
      LET h == HandlerIn(routes, nodes, NestedKey(a)) IN
      /\ h # <<>>
      /\ \E g \in GlobalPrefixes : h[1].middlewares = g \o InnerMws \o a[3]
      /\ \A r \in ReqIds :
           (reqs[r].which = "route" /\ reqs[r].handler = h) =>
             RanOnion(r, h[1].middlewares)

\* A request on /api/v1/x, registered after use(A, B), has settled having run
\* A, B, H and C around the handler, and not G.
C23_NestedReached ==
  \E r \in ReqIds :
    /\ ChainSettled(r) /\ reqs[r].which = "route"
    /\ reqs[r].path = <<Lit("api"), Lit("v1"), Lit("x")>>
    /\ reqs[r].trace = Onion(<<"A", "B", "H", "C">>, "route")

====
